---- MODULE Spec2Model ----
(***************************************************************************)
(* Model of the Dict type of the collection library (src/dict.go), of the  *)
(* free function MapDict (src/collection.go) and of the List operations    *)
(* Add, Insert, Delete, Pop, Clear and SubList, instantiated at K = int    *)
(* and V = int.                                                            *)
(*                                                                         *)
(* A dictionary is a pointer to a struct whose only field, val, is a Go    *)
(* map.  Go maps are reference values, so the model keeps a heap of maps   *)
(* and lets every dictionary hold the identifier of its map (or the nil    *)
(* map); the caller may hold a map of the heap itself.  Every method is    *)
(* one action, taken by a caller that is idle; a panic is recorded in      *)
(* last.err and leaves the heap as the code left it at the point of the    *)
(* panic.  Return is the caller taking the result and becoming idle again. *)
(* Spec is a caller of dictionaries and lists; SpecNative is a caller that *)
(* keeps the Go map it passes to NewDictFrom or gets from GoMap.           *)
(***************************************************************************)
EXTENDS Integers, Sequences, FiniteSets, TLC

\* ---------------------------------------------------------------- bounds
MaxKey == 2
MaxVal == 1
NumDicts == 3
MaxArgs == 2
MaxLen == 3
NumLists == 2

\* ------------------------------------------------------------ value sets
\* The type parameters: K = int restricted to 1..MaxKey, V = int restricted to
\* 0..MaxVal.
K == 1 .. MaxKey
V == 0 .. MaxVal
\* The zero value of V, which Go's map index yields for a missing key.
Zero == 0
\* The nil map.
NilMap == 0
DictIds == 1 .. NumDicts
\* One map per dictionary, and one more for the make() of Clear.
MapIds == 1 .. (NumDicts + 1)
\* The variadic arguments keys ...K.
KeySeqs == UNION {[1 .. n -> K] : n \in 0 .. MaxArgs}
\* Every map[K]V over the bounded key and value sets.
MapContents == UNION {[S -> V] : S \in SUBSET K}
EmptyMap == [k \in {} |-> Zero]
\* The List objects the caller can hold at a time.
ListIds == 1 .. NumLists
\* The elements of a List[K] or a List[V].
Elems == K \cup V

VARIABLES
    heap,   \* the allocated Go maps: map identifier -> map[K]V
    dict,   \* the live mapDict objects: dictionary -> its val (a map identifier or NilMap)
    list,   \* the live List objects: list -> its elements in order
    native, \* the Go map the caller holds itself, and the dictionary it gave it to or got it from
    last    \* the call in progress: operation, arguments, result or panic, and the state before it

vars == <<heap, dict, list, native, last>>

\* ------------------------------------------------------- Go map built-ins
\* A faulty m[key] = value, which keeps the value of a key that exists.
mapSetKeepsOld(m, k, v) == [x \in (DOMAIN m) \cup {k} |-> IF x \in DOMAIN m THEN m[x] ELSE v]

\* m[key] = value
mapSet(m, k, v) == [x \in (DOMAIN m) \cup {k} |-> IF x = k THEN v ELSE m[x]]

\* delete(m, key)
mapDelete(m, k) == [x \in (DOMAIN m) \ {k} |-> m[x]]

\* m[key] as an expression: the zero value when the key is missing
mapIndex(m, k) == IF k \in DOMAIN m THEN m[k] ELSE Zero

\* _, ok := m[key]
mapHas(m, k) == k \in DOMAIN m

\* len(m)
mapLen(m) == Cardinality(DOMAIN m)

\* The orders in which a range loop may visit the keys of m.
RangeOrders(m) ==
    {s \in [1 .. mapLen(m) -> DOMAIN m] : \A i, j \in 1 .. mapLen(m) : s[i] = s[j] => i = j}

\* ------------------------------------------------------------ the heap
\* The caller holds no Go map itself.
NoNative == [id |-> NilMap, of |-> 0]

\* The Go maps the caller holds itself when its variable is nat.
Natives(nat) == {nat.id} \ {NilMap}

\* The garbage collector: a map that no dictionary refers to, and that the
\* caller does not hold, is gone.
Collect(h, dct, nat) ==
    [m \in ({dct[d] : d \in DOMAIN dct} \cup Natives(nat)) \cap DOMAIN h |-> h[m]]

\* make(map[K]V) for the dictionary d: the identifier of a new map, one that no
\* dictionary other than d refers to and the caller does not hold.  Identifiers of collected maps are reused,
\* the one named like the dictionary first.
NewMapId(d) ==
    LET inUse == {dict[e] : e \in (DOMAIN dict) \ {d}} \cup Natives(native)
        free == MapIds \ inUse
    IN IF d \in free THEN d ELSE CHOOSE m \in free : \A n \in free : m <= n

\* A new mapDict object.
NewDictId(dct) == CHOOSE d \in DictIds \ DOMAIN dct : \A e \in DictIds \ DOMAIN dct : d <= e

\* The objects the caller holds stay within the bound: NumDicts dictionaries,
\* or one list or one Go map beside one dictionary, or NumLists lists alone.
Room(dicts, lists, maps) ==
    \/ Cardinality(dicts) + (NumDicts - 1) * (Cardinality(lists) + Cardinality(maps)) <= NumDicts
    \/ dicts = {} /\ maps = {} /\ Cardinality(lists) <= NumLists

HasRoom ==
    \E d \in DictIds \ DOMAIN dict : Room((DOMAIN dict) \cup {d}, DOMAIN list, Natives(native))

HasListRoom ==
    \E l \in ListIds \ DOMAIN list : Room(DOMAIN dict, (DOMAIN list) \cup {l}, Natives(native))

\* The caller has room to hold the Go map m itself.
HasNativeRoom(m) == Room(DOMAIN dict, DOMAIN list, {m})

\* assert(): the dictionary is initialized
Initialized(d) == dict[d] # NilMap

\* getVal() of an initialized dictionary
getVal(d) == heap[dict[d]]

\* The caller is between two calls.
Idle == last.op = "idle"

NoCall ==
    [op |-> "idle", self |-> 0, other |-> 0, keys |-> <<>>, val |-> 0, fn |-> "none",
     ret |-> 0, err |-> "none", calls |-> <<>>,
     preHeap |-> [m \in {} |-> EmptyMap], preDict |-> [d \in {} |-> NilMap],
     preList |-> [l \in {} |-> <<>>]]

\* The record of a call.
Call(op, self, other, keys, val, fn, ret, err, calls) ==
    [op |-> op, self |-> self, other |-> other, keys |-> keys, val |-> val, fn |-> fn,
     ret |-> ret, err |-> err, calls |-> calls,
     preHeap |-> heap, preDict |-> dict, preList |-> list]

\* A call that panics in assert().
Uninit(op, self, other, keys, val, fn) ==
    /\ last' = Call(op, self, other, keys, val, fn, 0, "uninit", <<>>)
    /\ UNCHANGED <<heap, dict, list, native>>

\* A call that returns ret, or panics with err, and changes nothing.
Returns(op, self, other, keys, val, fn, ret, err, calls) ==
    /\ last' = Call(op, self, other, keys, val, fn, ret, err, calls)
    /\ UNCHANGED <<heap, dict, list, native>>

\* A call that returns a new dictionary holding the new map m.
ReturnsNew(op, self, other, keys, val, fn, m, calls) ==
    /\ HasRoom
    /\ LET r == NewDictId(dict)
           id == NewMapId(r)
       IN /\ dict' = [x \in (DOMAIN dict) \cup {r} |-> IF x = r THEN id ELSE dict[x]]
          /\ heap' = [x \in (DOMAIN heap) \cup {id} |-> IF x = id THEN m ELSE heap[x]]
          /\ last' = Call(op, self, other, keys, val, fn, r, "none", calls)
    /\ UNCHANGED <<list, native>>

Init ==
    /\ heap = [m \in {} |-> EmptyMap]
    /\ dict = [d \in {} |-> NilMap]
    /\ list = [l \in {} |-> <<>>]
    /\ native = NoNative
    /\ last = NoCall

\* The caller takes the result, or recovers from the panic.
Return ==
    /\ ~Idle
    /\ last' = NoCall
    /\ UNCHANGED <<heap, dict, list, native>>

\* ------------------------------------------------------------ constructors
NewDict ==
    /\ Idle
    /\ ReturnsNew("NewDict", 0, 0, <<>>, 0, "none", EmptyMap, <<>>)

\* NewDictFrom(goMap) with a map literal the caller keeps no reference to.
NewDictFromLiteral ==
    /\ Idle
    /\ \E m \in MapContents :
        ReturnsNew("NewDictFrom", 0, 0, <<>>, 0, "none", m, <<>>)

\* NewDictFrom(goMap) with the nil map.
NewDictFromNil ==
    /\ Idle
    /\ HasRoom
    /\ LET r == NewDictId(dict)
       IN /\ dict' = [x \in (DOMAIN dict) \cup {r} |-> IF x = r THEN NilMap ELSE dict[x]]
          /\ last' = Call("NewDictFrom", 0, 0, <<>>, 0, "none", r, "none", <<>>)
    /\ UNCHANGED <<heap, list, native>>

\* m := map[K]V{...}: the caller makes a Go map and holds it.
MakeMap ==
    /\ Idle
    /\ native.id = NilMap
    /\ \E m \in MapContents :
        LET id == NewMapId(0)
        IN /\ HasNativeRoom(id)
           /\ heap' = [x \in (DOMAIN heap) \cup {id} |-> IF x = id THEN m ELSE heap[x]]
           /\ native' = [id |-> id, of |-> 0]
           /\ last' = Call("MakeMap", 0, 0, <<>>, 0, "none", id, "none", <<>>)
           /\ UNCHANGED <<dict, list>>

\* NewDictFrom(goMap) with the map the caller holds: the dictionary wraps it.
NewDictFromNative ==
    /\ Idle
    /\ native.id # NilMap
    /\ HasRoom
    /\ LET r == NewDictId(dict)
       IN /\ dict' = [x \in (DOMAIN dict) \cup {r} |-> IF x = r THEN native.id ELSE dict[x]]
          /\ native' = [native EXCEPT !.of = r]
          /\ last' = Call("NewDictFrom", 0, 0, <<>>, 0, "none", r, "none", <<>>)
    /\ UNCHANGED <<heap, list>>

\* The caller lets go of the Go map it holds.
DropNative ==
    /\ Idle
    /\ native.id # NilMap
    /\ native' = NoNative
    /\ heap' = Collect(heap, dict, native')
    /\ last' = Call("DropNative", 0, 0, <<>>, 0, "none", 0, "none", <<>>)
    /\ UNCHANGED <<dict, list>>

\* The last reference to a dictionary goes away.
Drop ==
    /\ Idle
    /\ \E d \in DOMAIN dict :
        /\ dict' = [x \in (DOMAIN dict) \ {d} |-> dict[x]]
        /\ native' = IF native.of = d THEN [native EXCEPT !.of = 0] ELSE native
        /\ heap' = Collect(heap, dict', native')
        /\ last' = Call("Drop", d, 0, <<>>, 0, "none", 0, "none", <<>>)
        /\ UNCHANGED list

\* ------------------------------------------------------------ Set
Set ==
    /\ Idle
    /\ \E d \in DOMAIN dict, k \in K, v \in V :
        IF ~Initialized(d)
        THEN Uninit("Set", d, 0, <<k>>, v, "none")
        ELSE /\ heap' = [heap EXCEPT ![dict[d]] = mapSet(@, k, v)]
             /\ last' = Call("Set", d, 0, <<k>>, v, "none", d, "none", <<>>)
             /\ UNCHANGED <<dict, list, native>>

\* ------------------------------------------------------------ Unset
\* A faulty loop of Unset, which deletes without checkKey.
RECURSIVE UnsetLoopNoCheck(_, _, _)
UnsetLoopNoCheck(m, keys, i) ==
    IF i > Len(keys) THEN [m |-> m, failed |-> 0]
    ELSE UnsetLoopNoCheck(mapDelete(m, keys[i]), keys, i + 1)

\* The loop of Unset over keys[i..]: the map it leaves and the index of the
\* key whose checkKey panicked (0 when none did).
RECURSIVE UnsetLoop(_, _, _)
UnsetLoop(m, keys, i) ==
    IF i > Len(keys) THEN [m |-> m, failed |-> 0]
    ELSE IF ~mapHas(m, keys[i]) THEN [m |-> m, failed |-> i]
    ELSE UnsetLoop(mapDelete(m, keys[i]), keys, i + 1)

Unset ==
    /\ Idle
    /\ \E d \in DOMAIN dict, keys \in KeySeqs :
        IF ~Initialized(d)
        THEN Uninit("Unset", d, 0, keys, 0, "none")
        ELSE LET r == UnsetLoop(getVal(d), keys, 1)
             IN /\ heap' = [heap EXCEPT ![dict[d]] = r.m]
                /\ last' = IF r.failed = 0
                           THEN Call("Unset", d, 0, keys, 0, "none", d, "none", <<>>)
                           ELSE Call("Unset", d, 0, keys, r.failed, "none", 0, "key", <<>>)
                /\ UNCHANGED <<dict, list, native>>

\* ------------------------------------------------------------ Clear
\* A faulty Clear, which leaves the map as it is.
ClearKeeps ==
    /\ Idle
    /\ \E d \in DOMAIN dict :
        IF ~Initialized(d)
        THEN Uninit("Clear", d, 0, <<>>, 0, "none")
        ELSE Returns("Clear", d, 0, <<>>, 0, "none", d, "none", <<>>)

Clear ==
    /\ Idle
    /\ \E d \in DOMAIN dict :
        IF ~Initialized(d)
        THEN Uninit("Clear", d, 0, <<>>, 0, "none")
        ELSE LET id == NewMapId(d)
             IN /\ dict' = [dict EXCEPT ![d] = id]
                /\ heap' = Collect([x \in (DOMAIN heap) \cup {id} |->
                                       IF x = id THEN EmptyMap ELSE heap[x]], dict', native)
                /\ last' = Call("Clear", d, 0, <<>>, 0, "none", d, "none", <<>>)
                /\ UNCHANGED <<list, native>>

\* ------------------------------------------------------------ Get
Get ==
    /\ Idle
    /\ \E d \in DOMAIN dict, k \in K :
        IF ~Initialized(d)
        THEN Uninit("Get", d, 0, <<k>>, 0, "none")
        ELSE IF ~mapHas(getVal(d), k)
        THEN Returns("Get", d, 0, <<k>>, 0, "none", 0, "key", <<>>)
        ELSE Returns("Get", d, 0, <<k>>, 0, "none", getVal(d)[k], "none", <<>>)

\* ------------------------------------------------------------ String
\* toString(value) of collection.go at int: strconv.Itoa.
toString(x) == ToString(x)

\* The map a range loop or len() sees: the nil map has no fields.
rangeVal(d) == IF dict[d] = NilMap THEN EmptyMap ELSE heap[dict[d]]

\* The loop of String: the fields in the order visited, a comma after each
\* one but the last.
RECURSIVE StringLoop(_, _, _)
StringLoop(m, order, i) ==
    IF i > Len(order) THEN ""
    ELSE toString(order[i]) \o ":" \o toString(m[order[i]])
         \o (IF i < mapLen(m) THEN "," ELSE "") \o StringLoop(m, order, i + 1)

StringOf(m, order) == "{" \o StringLoop(m, order, 1) \o "}"

String ==
    /\ Idle
    /\ \E d \in DOMAIN dict :
        \E order \in RangeOrders(rangeVal(d)) :
            Returns("String", d, 0, <<>>, 0, "none", StringOf(rangeVal(d), order), "none", <<>>)

\* ------------------------------------------------------------ GoMap
\* GoMap returns the map of the dictionary; the caller does not keep it.
GoMap ==
    /\ Idle
    /\ \E d \in DOMAIN dict :
        IF ~Initialized(d)
        THEN Uninit("GoMap", d, 0, <<>>, 0, "none")
        ELSE Returns("GoMap", d, 0, <<>>, 0, "none", dict[d], "none", <<>>)

\* m = d.GoMap(): the caller keeps the map GoMap returns, in place of the one
\* it held.
GoMapKept ==
    /\ Idle
    /\ \E d \in DOMAIN dict :
        IF ~Initialized(d)
        THEN Uninit("GoMap", d, 0, <<>>, 0, "none")
        ELSE /\ HasNativeRoom(dict[d])
             /\ native' = [id |-> dict[d], of |-> d]
             /\ heap' = Collect(heap, dict, native')
             /\ last' = Call("GoMap", d, 0, <<>>, 0, "none", dict[d], "none", <<>>)
             /\ UNCHANGED <<dict, list>>

\* ------------------------------------------------------------ Clone
\* for key, value := range src { obj.Set(key, value) }, from order[i] on.
RECURSIVE SetAll(_, _, _, _)
SetAll(acc, src, order, i) ==
    IF i > Len(order) THEN acc
    ELSE SetAll(mapSet(acc, order[i], src[order[i]]), src, order, i + 1)

\* The map of the dictionary Clone returns.
CloneMap(m, order) == SetAll(EmptyMap, m, order, 1)

\* A faulty Clone, which wraps the map of ego in a new dictionary.
CloneShared ==
    /\ Idle
    /\ HasRoom
    /\ \E d \in DOMAIN dict :
        LET r == NewDictId(dict)
        IN /\ dict' = [x \in (DOMAIN dict) \cup {r} |-> IF x = r THEN dict[d] ELSE dict[x]]
           /\ last' = Call("Clone", d, 0, <<>>, 0, "none", r, "none", <<>>)
    /\ UNCHANGED <<heap, list, native>>

Clone ==
    /\ Idle
    /\ \E d \in DOMAIN dict :
        \E order \in RangeOrders(rangeVal(d)) :
            ReturnsNew("Clone", d, 0, <<>>, 0, "none", CloneMap(rangeVal(d), order), <<>>)

\* ------------------------------------------------------------ Count, Empty
Count ==
    /\ Idle
    /\ \E d \in DOMAIN dict :
        IF ~Initialized(d)
        THEN Uninit("Count", d, 0, <<>>, 0, "none")
        ELSE Returns("Count", d, 0, <<>>, 0, "none", mapLen(getVal(d)), "none", <<>>)

Empty ==
    /\ Idle
    /\ \E d \in DOMAIN dict :
        IF ~Initialized(d)
        THEN Uninit("Empty", d, 0, <<>>, 0, "none")
        ELSE Returns("Empty", d, 0, <<>>, 0, "none", mapLen(getVal(d)) = 0, "none", <<>>)

\* ------------------------------------------------------------ Equals
\* The loop of Equals over the keys of ego.
RECURSIVE EqualsLoop(_, _, _, _)
EqualsLoop(a, b, order, i) ==
    IF i > Len(order) THEN TRUE
    ELSE IF a[order[i]] # mapIndex(b, order[i]) THEN FALSE
    ELSE EqualsLoop(a, b, order, i + 1)

\* What Equals returns on two initialized dictionaries with the maps a and b.
EqualsMaps(a, b, order) ==
    IF mapLen(a) # mapLen(b) THEN FALSE ELSE EqualsLoop(a, b, order, 1)

Equals ==
    /\ Idle
    /\ \E d \in DOMAIN dict, e \in DOMAIN dict :
        IF ~Initialized(d) \/ ~Initialized(e)
        THEN Uninit("Equals", d, e, <<>>, 0, "none")
        ELSE \E order \in RangeOrders(getVal(d)) :
                Returns("Equals", d, e, <<>>, 0, "none",
                        EqualsMaps(getVal(d), getVal(e), order), "none", <<>>)

\* ------------------------------------------------------------ Merge
\* A faulty Merge, in which the value of ego wins where the keys collide.
MergeMapsEgoWins(a, b, oa, ob) == SetAll(CloneMap(b, ob), a, oa, 1)

\* The map of the dictionary Merge returns: the clone of ego, then every
\* field of another set on it.
MergeMaps(a, b, oa, ob) == SetAll(CloneMap(a, oa), b, ob, 1)

\* A faulty Merge, which sets the fields of another into ego itself.
MergeInPlace ==
    /\ Idle
    /\ \E d \in DOMAIN dict, e \in DOMAIN dict :
        IF ~Initialized(d) \/ ~Initialized(e)
        THEN Uninit("Merge", d, e, <<>>, 0, "none")
        ELSE \E oa \in RangeOrders(getVal(d)), ob \in RangeOrders(getVal(e)) :
                /\ heap' = [heap EXCEPT ![dict[d]] = MergeMaps(getVal(d), getVal(e), oa, ob)]
                /\ last' = Call("Merge", d, e, <<>>, 0, "none", d, "none", <<>>)
                /\ UNCHANGED <<dict, list, native>>

Merge ==
    /\ Idle
    /\ \E d \in DOMAIN dict, e \in DOMAIN dict :
        IF ~Initialized(d) \/ ~Initialized(e)
        THEN Uninit("Merge", d, e, <<>>, 0, "none")
        ELSE \E oa \in RangeOrders(getVal(d)), ob \in RangeOrders(getVal(e)) :
                ReturnsNew("Merge", d, e, <<>>, 0, "none",
                           MergeMaps(getVal(d), getVal(e), oa, ob), <<>>)

\* ------------------------------------------------------------ Pluck
\* A faulty loop of Pluck, which indexes the map instead of calling Get.
RECURSIVE PluckLoopNoCheck(_, _, _, _)
PluckLoopNoCheck(acc, m, keys, i) ==
    IF i > Len(keys) THEN [m |-> acc, failed |-> 0]
    ELSE PluckLoopNoCheck(mapSet(acc, keys[i], mapIndex(m, keys[i])), m, keys, i + 1)

\* The loop of Pluck over keys[i..]: the map of the result and the index of
\* the key whose Get panicked (0 when none did).
RECURSIVE PluckLoop(_, _, _, _)
PluckLoop(acc, m, keys, i) ==
    IF i > Len(keys) THEN [m |-> acc, failed |-> 0]
    ELSE IF ~mapHas(m, keys[i]) THEN [m |-> acc, failed |-> i]
    ELSE PluckLoop(mapSet(acc, keys[i], m[keys[i]]), m, keys, i + 1)

Pluck ==
    /\ Idle
    /\ \E d \in DOMAIN dict, keys \in KeySeqs :
        IF ~Initialized(d)
        THEN Uninit("Pluck", d, 0, keys, 0, "none")
        ELSE LET r == PluckLoop(EmptyMap, getVal(d), keys, 1)
             IN IF r.failed # 0
                THEN Returns("Pluck", d, 0, keys, r.failed, "none", 0, "key", <<>>)
                ELSE ReturnsNew("Pluck", d, 0, keys, 0, "none", r.m, <<>>)

\* ------------------------------------------------------------ Contains, KeyOf
\* A faulty loop of KeyOf, which compares the key with the given value.
RECURSIVE KeyOfLoopByKey(_, _, _, _)
KeyOfLoopByKey(m, v, order, i) ==
    IF i > Len(order) THEN 0
    ELSE IF order[i] = v THEN order[i]
    ELSE KeyOfLoopByKey(m, v, order, i + 1)

\* The loop of KeyOf: the first key in the order visited whose value is the
\* given one, 0 when the loop ends without one.
RECURSIVE KeyOfLoop(_, _, _, _)
KeyOfLoop(m, v, order, i) ==
    IF i > Len(order) THEN 0
    ELSE IF m[order[i]] = v THEN order[i]
    ELSE KeyOfLoop(m, v, order, i + 1)

\* The loop of Contains.
RECURSIVE ContainsLoop(_, _, _, _)
ContainsLoop(m, v, order, i) ==
    IF i > Len(order) THEN FALSE
    ELSE IF m[order[i]] = v THEN TRUE
    ELSE ContainsLoop(m, v, order, i + 1)

Contains ==
    /\ Idle
    /\ \E d \in DOMAIN dict, v \in V :
        IF ~Initialized(d)
        THEN Uninit("Contains", d, 0, <<>>, v, "none")
        ELSE \E order \in RangeOrders(getVal(d)) :
                Returns("Contains", d, 0, <<>>, v, "none",
                        ContainsLoop(getVal(d), v, order, 1), "none", <<>>)

KeyOf ==
    /\ Idle
    /\ \E d \in DOMAIN dict, v \in V :
        IF ~Initialized(d)
        THEN Uninit("KeyOf", d, 0, <<>>, v, "none")
        ELSE \E order \in RangeOrders(getVal(d)) :
                LET k == KeyOfLoop(getVal(d), v, order, 1)
                IN IF k = 0
                   THEN Returns("KeyOf", d, 0, <<>>, v, "none", 0, "value", <<>>)
                   ELSE Returns("KeyOf", d, 0, <<>>, v, "none", k, "none", <<>>)

\* ------------------------------------------------------------ KeyExists
KeyExists ==
    /\ Idle
    /\ \E d \in DOMAIN dict, k \in K :
        IF ~Initialized(d)
        THEN Uninit("KeyExists", d, 0, <<k>>, 0, "none")
        ELSE Returns("KeyExists", d, 0, <<k>>, 0, "none", mapHas(getVal(d), k), "none", <<>>)

\* ------------------------------------------------------------ ForEach, Map
\* The functions passed to ForEach, Map and MapDict.
Fns == {"id", "succ", "key"}

Apply(fn, k, v) ==
    CASE fn = "id" -> v
      [] fn = "succ" -> (v + 1) % (MaxVal + 1)
      [] fn = "key" -> k % (MaxVal + 1)

\* The invocations function(key, item) of a range loop, in the order made.
RECURSIVE CallsLoop(_, _, _)
CallsLoop(m, order, i) ==
    IF i > Len(order) THEN <<>>
    ELSE <<(<<order[i], m[order[i]]>>)>> \o CallsLoop(m, order, i + 1)

\* A faulty loop of Map, which sets the item instead of function(key, item).
RECURSIVE MapLoopNoApply(_, _, _, _, _)
MapLoopNoApply(acc, m, fn, order, i) ==
    IF i > Len(order) THEN acc
    ELSE MapLoopNoApply(mapSet(acc, order[i], m[order[i]]), m, fn, order, i + 1)

\* for key, item := range m { result.Set(key, function(key, item)) }
RECURSIVE MapLoop(_, _, _, _, _)
MapLoop(acc, m, fn, order, i) ==
    IF i > Len(order) THEN acc
    ELSE MapLoop(mapSet(acc, order[i], Apply(fn, order[i], m[order[i]])), m, fn, order, i + 1)

ForEach ==
    /\ Idle
    /\ \E d \in DOMAIN dict :
        IF ~Initialized(d)
        THEN Uninit("ForEach", d, 0, <<>>, 0, "none")
        ELSE \E order \in RangeOrders(getVal(d)) :
                Returns("ForEach", d, 0, <<>>, 0, "none", d, "none",
                        CallsLoop(getVal(d), order, 1))

Map ==
    /\ Idle
    /\ \E d \in DOMAIN dict, fn \in Fns :
        IF ~Initialized(d)
        THEN Uninit("Map", d, 0, <<>>, 0, fn)
        ELSE \E order \in RangeOrders(getVal(d)) :
                ReturnsNew("Map", d, 0, <<>>, 0, fn,
                           MapLoop(EmptyMap, getVal(d), fn, order, 1),
                           CallsLoop(getVal(d), order, 1))

\* MapDict of collection.go: new.Set(key, function(key, value)) from inside
\* dict.ForEach.
MapDict ==
    /\ Idle
    /\ \E d \in DOMAIN dict, fn \in Fns :
        IF ~Initialized(d)
        THEN Uninit("MapDict", d, 0, <<>>, 0, fn)
        ELSE \E order \in RangeOrders(getVal(d)) :
                ReturnsNew("MapDict", d, 0, <<>>, 0, fn,
                           MapLoop(EmptyMap, getVal(d), fn, order, 1),
                           CallsLoop(getVal(d), order, 1))

\* ------------------------------------------------------------ List
\* NewList(): a new, empty list.
NewList == <<>>

\* List.Add(values...): the values appended at the end.
listAdd(l, vals) == l \o vals

\* List.Delete(index): the list without the element at the 0-based index.
listDelete(l, i) == SubSeq(l, 1, i) \o SubSeq(l, i + 2, Len(l))

\* A call that returns a new list holding the elements s.
ReturnsList(op, self, s) ==
    /\ HasListRoom
    /\ LET l == CHOOSE x \in ListIds \ DOMAIN list : \A y \in ListIds \ DOMAIN list : x <= y
       IN /\ list' = [x \in (DOMAIN list) \cup {l} |-> IF x = l THEN s ELSE list[x]]
          /\ last' = Call(op, self, 0, <<>>, 0, "none", l, "none", <<>>)
    /\ UNCHANGED <<heap, dict, native>>

\* ------------------------------------------------------------ Keys, Values
\* A faulty loop of Keys, which starts a new list at every key.
RECURSIVE KeysLoopLastOnly(_, _, _)
KeysLoopLastOnly(acc, order, i) ==
    IF i > Len(order) THEN acc
    ELSE KeysLoopLastOnly(listAdd(NewList, <<order[i]>>), order, i + 1)

\* for key := range m { keys.Add(key) }, from order[i] on.
RECURSIVE KeysLoop(_, _, _)
KeysLoop(acc, order, i) ==
    IF i > Len(order) THEN acc
    ELSE KeysLoop(listAdd(acc, <<order[i]>>), order, i + 1)

\* for _, value := range m { values.Add(value) }, from order[i] on.
RECURSIVE ValuesLoop(_, _, _, _)
ValuesLoop(acc, m, order, i) ==
    IF i > Len(order) THEN acc
    ELSE ValuesLoop(listAdd(acc, <<m[order[i]]>>), m, order, i + 1)

Keys ==
    /\ Idle
    /\ \E d \in DOMAIN dict :
        \E order \in RangeOrders(rangeVal(d)) :
            ReturnsList("Keys", d, KeysLoop(NewList, order, 1))

Values ==
    /\ Idle
    /\ \E d \in DOMAIN dict :
        \E order \in RangeOrders(rangeVal(d)) :
            ReturnsList("Values", d, ValuesLoop(NewList, rangeVal(d), order, 1))

\* ------------------------------------------------------------ calls on a returned list
ElemSeqs == UNION {[1 .. n -> Elems] : n \in 0 .. MaxArgs}

ListAdd ==
    /\ Idle
    /\ \E l \in DOMAIN list, vals \in ElemSeqs :
        /\ Len(list[l]) + Len(vals) <= MaxLen
        /\ list' = [list EXCEPT ![l] = listAdd(@, vals)]
        /\ last' = Call("ListAdd", l, 0, vals, 0, "none", l, "none", <<>>)
        /\ UNCHANGED <<heap, dict, native>>

\* The variadic arguments indexes ...int of Delete, valid or not.
Indexes == -1 .. MaxLen
IndexSeqs == UNION {[1 .. n -> Indexes] : n \in 0 .. MaxArgs}

\* A faulty ordering of the indexes of Delete: the order they were given in.
sortGiven(s) == s

\* The indexes of Delete in the order they are removed in: highest first, so
\* that a removal does not move an element that is still to be removed.
RECURSIVE sortReverse(_)
sortReverse(s) ==
    IF s = <<>> THEN <<>>
    ELSE LET i == CHOOSE a \in 1 .. Len(s) : \A b \in 1 .. Len(s) : s[b] <= s[a]
         IN <<s[i]>> \o sortReverse(SubSeq(s, 1, i - 1) \o SubSeq(s, i + 1, Len(s)))

\* A faulty loop of Delete, which passes over an index that does not exist.
RECURSIVE DeleteLoopSkips(_, _, _)
DeleteLoopSkips(l, idx, i) ==
    IF i > Len(idx) THEN [l |-> l, failed |-> 0]
    ELSE IF idx[i] < 0 \/ idx[i] >= Len(l) THEN DeleteLoopSkips(l, idx, i + 1)
    ELSE DeleteLoopSkips(listDelete(l, idx[i]), idx, i + 1)

\* The loop of Delete over idx[i..]: the list it leaves and the position of the
\* index it panicked at (0 when it did not).
RECURSIVE DeleteLoop(_, _, _)
DeleteLoop(l, idx, i) ==
    IF i > Len(idx) THEN [l |-> l, failed |-> 0]
    ELSE IF idx[i] < 0 \/ idx[i] >= Len(l) THEN [l |-> l, failed |-> i]
    ELSE DeleteLoop(listDelete(l, idx[i]), idx, i + 1)

ListDelete ==
    /\ Idle
    /\ \E l \in DOMAIN list, idx \in IndexSeqs :
        LET r == DeleteLoop(list[l], sortReverse(idx), 1)
        IN /\ list' = [list EXCEPT ![l] = r.l]
           /\ last' = Call("ListDelete", l, 0, idx, 0, "none",
                           IF r.failed = 0 THEN l ELSE 0,
                           IF r.failed = 0 THEN "none" ELSE "index", <<>>)
           /\ UNCHANGED <<heap, dict, native>>

\* List.Insert(index, value): the value placed at the 0-based index, the
\* elements from there on moved one place up.
listInsert(l, i, v) == SubSeq(l, 1, i) \o <<v>> \o SubSeq(l, i + 1, Len(l))

ListInsert ==
    /\ Idle
    /\ \E l \in DOMAIN list, i \in Indexes, v \in Elems :
        IF i < 0 \/ i > Len(list[l])
        THEN /\ last' = Call("ListInsert", l, 0, <<i>>, v, "none", 0, "index", <<>>)
             /\ UNCHANGED <<heap, dict, list, native>>
        ELSE /\ Len(list[l]) < MaxLen
             /\ list' = [list EXCEPT ![l] = listInsert(@, i, v)]
             /\ last' = Call("ListInsert", l, 0, <<i>>, v, "none", l, "none", <<>>)
             /\ UNCHANGED <<heap, dict, native>>

\* A faulty Pop, which takes the first element.
listPopFirst(l) == [l |-> SubSeq(l, 2, Len(l)), v |-> l[1]]

\* List.Pop() on a list that is not empty: the list without its last element,
\* and that element.
listPop(l) == [l |-> SubSeq(l, 1, Len(l) - 1), v |-> l[Len(l)]]

ListPop ==
    /\ Idle
    /\ \E l \in DOMAIN list :
        IF Len(list[l]) = 0
        THEN /\ last' = Call("ListPop", l, 0, <<>>, 0, "none", 0, "empty", <<>>)
             /\ UNCHANGED <<heap, dict, list, native>>
        ELSE /\ list' = [list EXCEPT ![l] = listPop(@).l]
             /\ last' = Call("ListPop", l, 0, <<>>, 0, "none", listPop(list[l]).v, "none", <<>>)
             /\ UNCHANGED <<heap, dict, native>>

\* The bounds start and end of SubList, valid or not.
Bounds == (0 - MaxLen - 1) .. (MaxLen + 1)

\* A faulty resolution of the end bound, which takes (0, 0) as it stands.
subListEndPlain(l, start, end) == IF end < 0 THEN Len(l) + end ELSE end

\* The end bound SubList works with: a negative end counts from the end of the
\* list, and (0, 0) stands for the whole list.
subListEnd(l, start, end) ==
    IF end < 0 THEN Len(l) + end
    ELSE IF start = 0 /\ end = 0 THEN Len(l)
    ELSE end

\* List.SubList(start, end) with bounds that pass the checks: the elements at
\* the 0-based positions start .. end - 1.
subList(l, start, end) == SubSeq(l, start + 1, subListEnd(l, start, end))

ListSubList ==
    /\ Idle
    /\ \E l \in DOMAIN list, start \in Bounds, end \in Bounds :
        LET e == subListEnd(list[l], start, end)
        IN IF start > e \/ start < 0 \/ e > Len(list[l])
           THEN /\ last' = Call("ListSubList", l, 0, <<start, end>>, 0, "none", 0, "index", <<>>)
                /\ UNCHANGED <<heap, dict, list, native>>
           ELSE /\ HasListRoom
                /\ LET r == CHOOSE x \in ListIds \ DOMAIN list :
                                \A y \in ListIds \ DOMAIN list : x <= y
                   IN /\ list' = [x \in (DOMAIN list) \cup {r} |->
                                    IF x = r THEN subList(list[l], start, end) ELSE list[x]]
                      /\ last' = Call("ListSubList", l, 0, <<start, end>>, 0, "none", r, "none", <<>>)
                /\ UNCHANGED <<heap, dict, native>>

\* NewList(values...): a new list holding the values.
NewListValues ==
    /\ Idle
    /\ \E vals \in ElemSeqs :
        ReturnsList("NewList", 0, listAdd(NewList, vals))

ListClear ==
    /\ Idle
    /\ \E l \in DOMAIN list :
        /\ list' = [list EXCEPT ![l] = NewList]
        /\ last' = Call("ListClear", l, 0, <<>>, 0, "none", l, "none", <<>>)
        /\ UNCHANGED <<heap, dict, native>>

\* The last reference to a list goes away.
DropList ==
    /\ Idle
    /\ \E l \in DOMAIN list :
        /\ list' = [x \in (DOMAIN list) \ {l} |-> list[x]]
        /\ last' = Call("DropList", l, 0, <<>>, 0, "none", 0, "none", <<>>)
        /\ UNCHANGED <<heap, dict, native>>

Next ==
    \/ NewDict
    \/ NewDictFromLiteral
    \/ NewDictFromNil
    \/ Drop
    \/ Set
    \/ Unset
    \/ Clear
    \/ Get
    \/ String
    \/ GoMap
    \/ Keys
    \/ Values
    \/ Clone
    \/ Count
    \/ Empty
    \/ Equals
    \/ Merge
    \/ Pluck
    \/ Contains
    \/ KeyOf
    \/ KeyExists
    \/ ForEach
    \/ Map
    \/ MapDict
    \/ ListAdd
    \/ NewListValues
    \/ ListDelete
    \/ ListInsert
    \/ ListPop
    \/ ListSubList
    \/ ListClear
    \/ DropList
    \/ Return

Spec == Init /\ [][Next]_vars

\* The calls of a caller that holds a Go map itself, beside the dictionary it
\* gave the map to or got it from.
NextNative ==
    \/ MakeMap
    \/ NewDictFromNative
    \/ NewDictFromLiteral
    \/ GoMapKept
    \/ DropNative
    \/ Drop
    \/ Set
    \/ Unset
    \/ Clear
    \/ Get
    \/ Count
    \/ Return

SpecNative == Init /\ [][NextNative]_vars

\* ================================================================ claims
Ok == last.err = "none"

\* The fields of the dictionary d before the call and after it.
preVal(d) == last.preHeap[last.preDict[d]]
curVal(d) == heap[dict[d]]

\* The receiver of the call was initialized.
WasInitialized(d) == d \in DOMAIN last.preDict /\ last.preDict[d] # NilMap

Range(s) == {s[i] : i \in 1 .. Len(s)}
Restrict(m, S) == [x \in S |-> m[x]]
Occurs(s, x) == Cardinality({i \in 1 .. Len(s) : s[i] = x})

\* The call returned a dictionary that did not exist before and whose map
\* no other dictionary holds.
ReturnedNewDict ==
    /\ last.ret \in (DOMAIN dict) \ DOMAIN last.preDict
    /\ dict[last.ret] # NilMap
    /\ \A x \in (DOMAIN dict) \ {last.ret} : dict[x] # dict[last.ret]

\* Every dictionary that existed before the call holds the map and the
\* fields it held.
OthersUnchanged(S) ==
    \A x \in S :
        /\ x \in DOMAIN dict
        /\ dict[x] = last.preDict[x]
        /\ dict[x] # NilMap => heap[dict[x]] = last.preHeap[dict[x]]

\* Set, Unset and Clear on one dictionary leave every other dictionary as it was.
MutatorFrame ==
    last.op \in {"Set", "Unset", "Clear"} =>
        OthersUnchanged((DOMAIN last.preDict) \ {last.self})

\* C1: on an initialized dict, Set(k, v) returns the receiver; afterwards the
\* key k holds v, every other key is present exactly when it was and holds
\* the value it held, and the field count is unchanged when k existed and one
\* more when it did not.
C1_SetContract ==
    (last.op = "Set" /\ WasInitialized(last.self)) =>
        LET d == last.self
            k == last.keys[1]
            old == preVal(d)
            new == curVal(d)
        IN /\ Ok
           /\ last.ret = d
           /\ dict = last.preDict
           /\ mapHas(new, k) /\ new[k] = last.val
           /\ \A x \in K \ {k} :
                /\ mapHas(new, x) = mapHas(old, x)
                /\ (mapHas(old, x) => new[x] = old[x])
           /\ mapLen(new) = IF mapHas(old, k) THEN mapLen(old) ELSE mapLen(old) + 1

\* A Set that overwrites the value of an existing key in a dict of two fields.
C1_Witness ==
    /\ last.op = "Set" /\ Ok
    /\ mapHas(preVal(last.self), last.keys[1])
    /\ preVal(last.self)[last.keys[1]] # last.val
    /\ mapLen(preVal(last.self)) = 2

\* The indices of the keys of an Unset or Pluck call that are not in the map
\* old when their turn comes: missing from old, or removed earlier in the call.
Absent(old, keys, removes) ==
    {i \in 1 .. Len(keys) :
        \/ ~mapHas(old, keys[i])
        \/ removes /\ \E j \in 1 .. (i - 1) : keys[j] = keys[i]}

Least(S) == CHOOSE i \in S : \A j \in S : i <= j

\* C2: on an initialized dict, Unset(k1..kn) fails with the key error at the
\* first key that is not present when its turn comes (one repeated earlier in
\* the call included); the keys before it are removed and nothing else is;
\* when no key fails exactly the given keys are removed.
C2_UnsetContract ==
    (last.op = "Unset" /\ WasInitialized(last.self)) =>
        LET d == last.self
            keys == last.keys
            old == preVal(d)
            new == curVal(d)
            bad == Absent(old, keys, TRUE)
        IN /\ dict = last.preDict
           /\ IF bad = {}
              THEN /\ Ok
                   /\ last.ret = d
                   /\ new = Restrict(old, (DOMAIN old) \ Range(keys))
              ELSE /\ last.err = "key"
                   /\ last.val = Least(bad)
                   /\ new = Restrict(old, (DOMAIN old) \ {keys[j] : j \in 1 .. (Least(bad) - 1)})

\* An Unset that removed its first key and failed at the second, the same key
\* again, in a dict of two fields.
C2_Witness ==
    /\ last.op = "Unset" /\ last.err = "key" /\ last.val = 2
    /\ last.keys[1] = last.keys[2]
    /\ mapLen(preVal(last.self)) = 2
    /\ mapLen(curVal(last.self)) = 1

\* The methods of Dict.
DictMethods ==
    {"Set", "Unset", "Clear", "Get", "String", "GoMap", "Keys", "Values", "Clone", "Count",
     "Empty", "Equals", "Merge", "Pluck", "Contains", "KeyOf", "KeyExists", "ForEach", "Map"}

\* C3: every method called on a dict whose map is nil fails with the
\* uninitialized error and returns nothing.
C3_EveryMethodAsserts ==
    (last.op \in DictMethods /\ last.preDict[last.self] = NilMap) => last.err = "uninit"

\* C4: on two initialized dicts Equals returns true exactly when both hold
\* the same fields: the same keys, each with the same value in both.
C4_EqualsIffSameFields ==
    (last.op = "Equals" /\ Ok) => (last.ret = (curVal(last.self) = curVal(last.other)))

\* C5: on two initialized dicts d and e, d.Merge(e) returns a new dict with
\* its own map, whose keys are those of d and of e, a key of e holding e's
\* value and a key of d alone holding d's; d and e are as they were; a later
\* Set, Unset or Clear on any dict, the result included, changes no other dict.
C5_MergeContract ==
    /\ (last.op = "Merge" /\ WasInitialized(last.self) /\ WasInitialized(last.other)) =>
            LET a == preVal(last.self)
                b == preVal(last.other)
                m == curVal(last.ret)
            IN /\ Ok
               /\ ReturnedNewDict
               /\ DOMAIN m = (DOMAIN a) \cup (DOMAIN b)
               /\ \A k \in DOMAIN m : m[k] = IF mapHas(b, k) THEN b[k] ELSE a[k]
               /\ OthersUnchanged(DOMAIN last.preDict)
    /\ MutatorFrame

\* A Merge of two different dicts that collide on a key with different values,
\* one of them holding a key the other lacks.
C5_Witness ==
    /\ last.op = "Merge" /\ Ok /\ last.self # last.other
    /\ DOMAIN preVal(last.self) # DOMAIN preVal(last.other)
    /\ \E k \in (DOMAIN preVal(last.self)) \cap (DOMAIN preVal(last.other)) :
            preVal(last.self)[k] # preVal(last.other)[k]

\* C6: on an initialized dict d, Pluck(k1..kn) with every key present in d
\* returns a new dict whose keys are exactly the given ones, each with the
\* value d holds; with a key absent from d it fails with the key error and
\* returns no dict.
C6_PluckContract ==
    (last.op = "Pluck" /\ WasInitialized(last.self)) =>
        LET old == preVal(last.self)
            bad == Absent(old, last.keys, FALSE)
        IN IF bad = {}
           THEN /\ Ok
                /\ ReturnedNewDict
                /\ DOMAIN curVal(last.ret) = Range(last.keys)
                /\ \A k \in Range(last.keys) : curVal(last.ret)[k] = old[k]
                /\ OthersUnchanged(DOMAIN last.preDict)
           ELSE /\ last.err = "key"
                /\ last.val = Least(bad)
                /\ dict = last.preDict
                /\ heap = last.preHeap

\* A Pluck of the same key twice from a dict of two fields.
C6_Witness ==
    /\ last.op = "Pluck" /\ Ok
    /\ Len(last.keys) = 2 /\ last.keys[1] = last.keys[2]
    /\ mapLen(preVal(last.self)) = 2
    /\ mapLen(curVal(last.ret)) = 1

\* C7: on an initialized dict d, c := d.Clone() is a new dict with the fields
\* of d, d.Equals(c) and c.Equals(d) are true, and c has a map of its own:
\* a Set, Unset or Clear on either leaves the other as it was.
C7_CloneContract ==
    /\ (last.op = "Clone" /\ WasInitialized(last.self)) =>
            LET d == last.self
                c == last.ret
            IN /\ Ok
               /\ ReturnedNewDict
               /\ curVal(c) = preVal(d)
               /\ \A o \in RangeOrders(curVal(d)) : EqualsMaps(curVal(d), curVal(c), o)
               /\ \A o \in RangeOrders(curVal(c)) : EqualsMaps(curVal(c), curVal(d), o)
               /\ OthersUnchanged(DOMAIN last.preDict)
    /\ MutatorFrame

\* A Clone of a dict of two fields.
C7_Witness ==
    /\ last.op = "Clone" /\ Ok
    /\ WasInitialized(last.self)
    /\ mapLen(curVal(last.ret)) = 2

\* C8: on an initialized dict, Contains(v) is true exactly when a field holds
\* v; KeyOf(v) then returns a key that holds v, and fails with the value error
\* when no field holds v.
C8_ContainsKeyOf ==
    /\ (last.op = "Contains" /\ WasInitialized(last.self)) =>
            /\ Ok
            /\ last.ret = (\E k \in DOMAIN curVal(last.self) : curVal(last.self)[k] = last.val)
    /\ (last.op = "KeyOf" /\ WasInitialized(last.self)) =>
            LET m == curVal(last.self)
            IN IF \E k \in DOMAIN m : m[k] = last.val
               THEN Ok /\ mapHas(m, last.ret) /\ m[last.ret] = last.val
               ELSE last.err = "value"

\* A KeyOf that returns the second of two keys holding the value.
C8_Witness ==
    /\ last.op = "KeyOf" /\ Ok /\ last.ret = 2
    /\ mapLen(curVal(last.self)) = 2
    /\ \A k \in DOMAIN curVal(last.self) : curVal(last.self)[k] = last.val

\* C9: on an initialized dict d, Keys() returns a new list of d.Count()
\* elements holding every key of d once, and Values() a new list holding the
\* value of every field; neither changes d; Set, Unset and Clear on d leave
\* a returned list as it was, and Add, Delete and Clear on the list leave d
\* as it was.
C9_KeysValuesSnapshots ==
    /\ (last.op = "Keys" /\ WasInitialized(last.self)) =>
            LET m == curVal(last.self)
                s == list[last.ret]
            IN /\ Ok
               /\ last.ret \notin DOMAIN last.preList
               /\ Len(s) = mapLen(m)
               /\ \A k \in K : Occurs(s, k) = IF mapHas(m, k) THEN 1 ELSE 0
               /\ heap = last.preHeap /\ dict = last.preDict
    /\ (last.op = "Values" /\ WasInitialized(last.self)) =>
            LET m == curVal(last.self)
                s == list[last.ret]
            IN /\ Ok
               /\ last.ret \notin DOMAIN last.preList
               /\ Len(s) = mapLen(m)
               /\ \A v \in V : Occurs(s, v) = Cardinality({k \in DOMAIN m : m[k] = v})
               /\ heap = last.preHeap /\ dict = last.preDict
    /\ last.op \in {"Set", "Unset", "Clear"} => list = last.preList
    /\ last.op \in {"ListAdd", "ListDelete", "ListClear"} =>
            heap = last.preHeap /\ dict = last.preDict

\* A Keys that returns the two keys of a dict of two fields.
C9_Witness ==
    /\ last.op = "Keys" /\ Ok
    /\ WasInitialized(last.self)
    /\ Len(list[last.ret]) = 2

\* C10: on an initialized dict d, Map(fn) and MapDict(d, fn) return a new
\* dict with the keys of d, each key k holding fn(k, d.Get(k)); fn is invoked
\* once for every field; d is as it was; with fn(k, v) = v the result Equals d.
C10_MapContract ==
    (last.op \in {"Map", "MapDict"} /\ WasInitialized(last.self)) =>
        LET old == preVal(last.self)
            new == curVal(last.ret)
        IN /\ Ok
           /\ ReturnedNewDict
           /\ DOMAIN new = DOMAIN old
           /\ \A k \in DOMAIN old : new[k] = Apply(last.fn, k, old[k])
           /\ Len(last.calls) = mapLen(old)
           /\ \A k \in DOMAIN old : Occurs(last.calls, <<k, old[k]>>) = 1
           /\ OthersUnchanged(DOMAIN last.preDict)
           /\ last.fn = "id" =>
                \A o \in RangeOrders(new) : EqualsMaps(new, curVal(last.self), o)

\* A Map over a dict of two fields with a function that changes both values.
C10_Witness ==
    /\ last.op = "Map" /\ Ok /\ last.fn = "succ"
    /\ mapLen(preVal(last.self)) = 2
    /\ \A k \in DOMAIN preVal(last.self) : curVal(last.ret)[k] # preVal(last.self)[k]

\* ------------------------------------------------------------ lists
\* The list l without the element at the 0-based position i.
Without(l, i) == [j \in 1 .. (Len(l) - 1) |-> IF j <= i THEN l[j] ELSE l[j + 1]]

\* The list l after the removals at idx[1], ..., idx[n], one after another.
RECURSIVE AfterRemovals(_, _, _)
AfterRemovals(l, idx, n) ==
    IF n = 0 THEN l ELSE Without(AfterRemovals(l, idx, n - 1), idx[n])

\* Each of idx[1..n] exists in the list at the time of its own removal.
ValidUpTo(l, idx, n) ==
    \A j \in 1 .. n : idx[j] >= 0 /\ idx[j] < Len(AfterRemovals(l, idx, j - 1))

\* The number of removals made before the first index that does not exist.
Applied(l, idx) ==
    CHOOSE n \in 0 .. Len(idx) :
        ValidUpTo(l, idx, n) /\ (n = Len(idx) \/ ~ValidUpTo(l, idx, n + 1))

\* The indexes s from the highest to the lowest.
Descending(s) ==
    CHOOSE t \in [1 .. Len(s) -> Range(s)] :
        /\ \A a, b \in 1 .. Len(s) : a < b => t[a] >= t[b]
        /\ \A x \in Range(s) : Occurs(t, x) = Occurs(s, x)

\* The last call, a Delete, removed the indexes in the order idx, stopped with
\* IndexError at the first one that did not exist, and kept the removals made
\* before it.
DeletedInOrder(idx) ==
    LET old == last.preList[last.self]
        n == Applied(old, idx)
    IN /\ list[last.self] = AfterRemovals(old, idx, n)
       /\ Ok <=> n = Len(idx)
       /\ Ok => last.ret = last.self
       /\ ~Ok => last.err = "index"
       /\ \A x \in (DOMAIN last.preList) \ {last.self} : x \in DOMAIN list /\ list[x] = last.preList[x]
       /\ DOMAIN list = DOMAIN last.preList
       /\ heap = last.preHeap /\ dict = last.preDict

\* C11, as stated: List.Delete(i1, ..., in) applies the indices one after
\* another in the given order; each must satisfy 0 <= i < Count() at the time
\* of its own removal, otherwise the call fails with IndexError, and the
\* removals made earlier in the same call stay applied.
C11_DeleteInGivenOrder ==
    last.op = "ListDelete" => DeletedInOrder(last.keys)

\* C11, amended: List.Delete(i1, ..., in) applies the indices one after
\* another from the highest to the lowest, whatever order they were given in;
\* each must satisfy 0 <= i < Count() at the time of its own removal,
\* otherwise the call fails with IndexError, and the removals made earlier in
\* the same call stay applied.
C11_DeleteHighestFirst ==
    last.op = "ListDelete" => DeletedInOrder(Descending(last.keys))

\* A Delete given a missing index first and an existing one second: it has
\* removed the existing one and failed.
C11_Witness ==
    /\ last.op = "ListDelete" /\ last.err = "index"
    /\ Len(last.keys) = 2 /\ last.keys[1] < last.keys[2]
    /\ Len(list[last.self]) = Len(last.preList[last.self]) - 1

\* The elements of l at the 0-based positions in S, in the order of l.
KeepAt(l, S) ==
    LET n == Cardinality(S)
        f == CHOOSE g \in [1 .. n -> S] : \A a, b \in 1 .. n : a < b => g[a] < g[b]
    IN [j \in 1 .. n |-> l[f[j] + 1]]

\* C12: a Delete with distinct indices that all lie in [0, Count()) before the
\* call succeeds and removes exactly the elements at those positions of the
\* list as it was before the call; the other elements keep their order.
C12_DeleteDistinctValid ==
    LET old == last.preList[last.self]
        idx == last.keys
    IN (/\ last.op = "ListDelete"
        /\ \A a, b \in 1 .. Len(idx) : idx[a] = idx[b] => a = b
        /\ \A a \in 1 .. Len(idx) : idx[a] >= 0 /\ idx[a] < Len(old)) =>
            /\ Ok
            /\ last.ret = last.self
            /\ list[last.self] = KeepAt(old, (0 .. (Len(old) - 1)) \ Range(idx))

\* A Delete of the first and the last element of a list of MaxLen elements,
\* given in this order, that left the middle ones.
C12_Witness ==
    /\ last.op = "ListDelete" /\ Ok
    /\ Len(last.preList[last.self]) = MaxLen
    /\ last.keys = <<0, MaxLen - 1>>
    /\ list[last.self] = SubSeq(last.preList[last.self], 2, MaxLen - 1)
    /\ list[last.self][1] # last.preList[last.self][1]

\* C13: for a list l of count n, SubList(start, end) with a negative end uses
\* n + end as the end; SubList(0, 0) returns a new list equal to all of l;
\* otherwise, for 0 <= start <= end <= n, it returns a new list holding the
\* elements at the positions start .. end - 1 in order; it fails when
\* start > end after the negative end is resolved, or when a bound lies
\* outside [0, n]; l itself is never changed.
C13_SubListContract ==
    last.op = "ListSubList" =>
        LET old == last.preList[last.self]
            n == Len(old)
            start == last.keys[1]
            end == IF last.keys[2] < 0 THEN n + last.keys[2] ELSE last.keys[2]
            whole == last.keys[1] = 0 /\ last.keys[2] = 0
            fails == ~whole /\ (start > end \/ start < 0 \/ start > n \/ end < 0 \/ end > n)
        IN /\ \A x \in DOMAIN last.preList : x \in DOMAIN list /\ list[x] = last.preList[x]
           /\ Ok <=> ~fails
           /\ ~Ok => last.err = "index" /\ DOMAIN list = DOMAIN last.preList
           /\ Ok => /\ last.ret \in (DOMAIN list) \ DOMAIN last.preList
                    /\ list[last.ret] = IF whole THEN old
                                        ELSE [j \in 1 .. (end - start) |-> old[start + j]]
           /\ heap = last.preHeap /\ dict = last.preDict

\* A SubList with a negative end that returned some, but not all, of a list
\* whose elements differ.
C13_Witness ==
    /\ last.op = "ListSubList" /\ Ok
    /\ last.keys[2] < 0 /\ last.keys[1] > 0
    /\ Len(list[last.ret]) = 1
    /\ Len(list[last.self]) = MaxLen
    /\ list[last.ret][1] # list[last.self][1]
    /\ list[last.ret][1] # list[last.self][MaxLen]

\* C14: for a list l of count n, Insert(i, v) succeeds exactly for
\* 0 <= i <= n and places v at position i, the elements from there on moving
\* one place up; Pop() on a list that is not empty returns the last element
\* and lowers Count() by one; after l.Insert(n, v) a Pop() returns v and
\* leaves l equal to what it was before the Insert; Pop() on an empty list
\* fails with EmptyError.
C14_InsertPop ==
    LET old == last.preList[last.self]
        new == list[last.self]
        n == Len(old)
    IN /\ last.op = "ListInsert" =>
            LET i == last.keys[1]
            IN /\ Ok <=> (0 <= i /\ i <= n)
               /\ ~Ok => last.err = "index" /\ list = last.preList
               /\ Ok => /\ last.ret = last.self
                        /\ Len(new) = n + 1
                        /\ new[i + 1] = last.val
                        /\ \A j \in 1 .. i : new[j] = old[j]
                        /\ \A j \in (i + 1) .. n : new[j + 1] = old[j]
                        /\ \A x \in (DOMAIN last.preList) \ {last.self} :
                                x \in DOMAIN list /\ list[x] = last.preList[x]
                        /\ i = n => listPop(new).v = last.val /\ listPop(new).l = old
       /\ last.op = "ListPop" =>
            /\ Ok <=> n > 0
            /\ ~Ok => last.err = "empty" /\ list = last.preList
            /\ Ok => /\ last.ret = old[n]
                     /\ Len(new) = n - 1
                     /\ \A j \in 1 .. (n - 1) : new[j] = old[j]
                     /\ \A x \in (DOMAIN last.preList) \ {last.self} :
                            x \in DOMAIN list /\ list[x] = last.preList[x]
       /\ last.op \in {"ListInsert", "ListPop"} =>
            /\ DOMAIN list = DOMAIN last.preList
            /\ heap = last.preHeap /\ dict = last.preDict

\* A Pop that returned the last element of a list whose first element differs
\* from it.
C14_Witness ==
    /\ last.op = "ListPop" /\ Ok
    /\ Len(last.preList[last.self]) = MaxLen
    /\ last.ret # last.preList[last.self][1]
    /\ last.ret = last.preList[last.self][MaxLen]

\* An Insert at position 1 that filled a list with a value its neighbours differ from.
C14_WitnessInsert ==
    /\ last.op = "ListInsert" /\ Ok
    /\ last.keys[1] = 1 /\ Len(list[last.self]) = MaxLen
    /\ list[last.self][1] # last.val /\ list[last.self][MaxLen] # last.val

\* ------------------------------------------------------------ the abstract map
\* The abstract partial map after the last call, a Set, Unset or Clear, when it
\* was old before: a Set binds its key, an Unset that succeeds removes its
\* keys, a Clear removes every key.  An Unset that fails removes the keys it
\* reached before the one it failed at when partial is TRUE, and counts for
\* nothing when partial is FALSE.
AbstractAfter(old, partial) ==
    LET keys == last.keys
    IN CASE last.op = "Set" /\ Ok ->
                [k \in (DOMAIN old) \cup {keys[1]} |-> IF k = keys[1] THEN last.val ELSE old[k]]
         [] last.op = "Unset" /\ Ok ->
                Restrict(old, (DOMAIN old) \ Range(keys))
         [] last.op = "Unset" /\ ~Ok /\ partial ->
                Restrict(old, (DOMAIN old) \
                    {keys[j] : j \in 1 .. (Least(Absent(old, keys, TRUE)) - 1)})
         [] last.op = "Clear" /\ Ok -> EmptyMap
         [] OTHER -> old

\* The dict of the last call agrees with the abstract map: a Set, Unset or
\* Clear leaves it initialized and holding the abstract map after the call, and
\* KeyExists, Get, Count and Empty answer from the abstract map and leave it.
AgreesWithAbstractMap(partial) ==
    (last.op \in {"Set", "Unset", "Clear", "KeyExists", "Get", "Count", "Empty"}
        /\ WasInitialized(last.self)) =>
        LET d == last.self
            old == preVal(d)
            k == last.keys[1]
        IN /\ d \in DOMAIN dict /\ dict[d] # NilMap
           /\ curVal(d) = AbstractAfter(old, partial)
           /\ last.err \in {"none", "key"}
           /\ last.op \in {"Set", "Clear", "KeyExists", "Count", "Empty"} => Ok
           /\ last.op = "KeyExists" => last.ret = (k \in DOMAIN old)
           /\ last.op = "Get" => IF k \in DOMAIN old THEN Ok /\ last.ret = old[k]
                                 ELSE last.err = "key"
           /\ last.op = "Count" => last.ret = Cardinality(DOMAIN old)
           /\ last.op = "Empty" => last.ret = (Cardinality(DOMAIN old) = 0)
           /\ last.op = "Clear" => Cardinality(DOMAIN curVal(d)) = 0

\* C15, as stated: after any sequence of Set, Unset and Clear on an
\* initialized dict, the dict agrees with an abstract partial map in which a
\* key exists exactly when the last successful operation affecting it was a
\* Set: KeyExists, Get (KeyError for a missing key), Count and Empty answer
\* from that map, and after Clear the count is 0 and the dict is still
\* initialized.  Stated on one step: each call leaves the dict at the abstract
\* map that the call, when successful, makes of the map before it.
C15_AbstractMapOfSuccessfulCalls == AgreesWithAbstractMap(FALSE)

\* C15, amended: the same, where the removals made by a failing Unset before
\* the key it failed at count as well: a key exists exactly when the last
\* operation that set or removed it was a Set.
C15_AbstractMapOfAppliedChanges == AgreesWithAbstractMap(TRUE)

\* An Unset of an existing key and then a missing one: it failed, and the
\* existing key is gone.
C15_Witness ==
    /\ last.op = "Unset" /\ last.err = "key"
    /\ Len(last.keys) = 2 /\ last.keys[1] # last.keys[2]
    /\ last.keys[1] \in DOMAIN preVal(last.self)
    /\ last.keys[1] \notin DOMAIN curVal(last.self)
    /\ mapLen(curVal(last.self)) = 0

\* C16: Dict.Equals is symmetric and reflexive: for all initialized d and e,
\* d.Equals(e) returns what e.Equals(d) returns, and d.Equals(d) returns true.
C16_EqualsSymmetricReflexive ==
    (last.op = "Equals" /\ Ok) =>
        /\ \A order \in RangeOrders(curVal(last.other)) :
                last.ret = EqualsMaps(curVal(last.other), curVal(last.self), order)
        /\ last.self = last.other => last.ret = TRUE

\* C17: a dict built with NewDictFrom(m) wraps m, and GoMap() returns that
\* same backing map: after any sequence of Set, Unset and Clear calls on the
\* dict, the Go map the caller passed to the constructor, or got from GoMap()
\* before, has exactly the fields of the dict.
C17_NativeMapFollowsDict ==
    (native.id # NilMap /\ native.of \in DOMAIN dict) =>
        /\ dict[native.of] # NilMap
        /\ heap[native.id] = heap[dict[native.of]]

\* The methods of Dict that are to leave the receiver as it is.
NonMutating ==
    {"Get", "KeyExists", "Count", "Empty", "Equals", "Contains", "KeyOf", "Keys", "Values",
     "Clone", "Merge", "Pluck", "Map", "String"}

\* C18: a non-mutating method never changes its receiver, also when it
\* fails: after Get, KeyExists, Count, Empty, Equals, Contains, KeyOf, Keys,
\* Values, Clone, Merge, Pluck, Map or String on an initialized dict d, d is
\* initialized and has exactly the fields it had before the call.
C18_NonMutatingKeepReceiver ==
    (last.op \in NonMutating /\ WasInitialized(last.self)) =>
        LET d == last.self
        IN /\ d \in DOMAIN dict
           /\ dict[d] # NilMap
           /\ \A k \in K :
                /\ mapHas(curVal(d), k) = mapHas(preVal(d), k)
                /\ mapHas(preVal(d), k) => curVal(d)[k] = preVal(d)[k]

\* A Pluck that found its first key and failed at the second, on a dict that
\* still holds the field of the first.
C18_Witness ==
    /\ last.op = "Pluck" /\ last.err = "key"
    /\ Len(last.keys) = 2
    /\ mapHas(preVal(last.self), last.keys[1])
    /\ ~mapHas(preVal(last.self), last.keys[2])
    /\ mapHas(curVal(last.self), last.keys[1])

====
